---- MODULE Spec2Model ----
(***************************************************************************)
(* Model of box.py: the per-directory Docker sandbox runner.               *)
(*                                                                         *)
(* The state is the container runtime (one container slot per container    *)
(* name), the configuration file, and, for every invocation of box.py, the *)
(* position of main() between its runtime calls together with what it has  *)
(* observed, the runtime calls it has issued and its exit code.  Every     *)
(* runtime call (a subprocess.run of docker) is one atomic step on the     *)
(* runtime; the exec call blocks, so it has an issue step and a return     *)
(* step.  The outcome of a call the runtime may refuse for reasons outside *)
(* the program (daemon error, image pull failure) is a nondeterministic    *)
(* choice.  In create, start and remove an exception other than            *)
(* CalledProcessError ends the process with a traceback and exit code 1:   *)
(* the same calls and the same exit code as the handled failure, so the    *)
(* failing outcome of those calls stands for both.                         *)
(***************************************************************************)
EXTENDS Integers, Sequences, FiniteSets, TLC

(* ------------------------------ bounds -------------------------------- *)

\* Number of invocations of box.py in one behaviour.
NumInvocations == 2

Procs == 1..NumInvocations

(* ------------------------------ paths --------------------------------- *)

\* A resolved absolute path is the sequence of its segments (Path.parts
\* without the root).
Alice == <<"home", "alice">>
Alice2 == <<"home", "alice2">>
AliceSub == <<"home", "alice", "sub">>
Tmp == <<"tmp">>
Box1 == <<"srv", "box", "9866885">>
Box2 == <<"srv", "box", "12238853">>

\* str(path) of a resolved absolute path.
RECURSIVE PathStr(_)
PathStr(p) == IF p = <<>> THEN "" ELSE "/" \o Head(p) \o PathStr(Tail(p))

\* cwd.relative_to(entry_path) does not raise ValueError: entry_path is cwd
\* or an ancestor of it, compared segment by segment.
IsRelativeTo(cwd, entry_path) ==
    /\ Len(entry_path) <= Len(cwd)
    /\ \A i \in 1..Len(entry_path) : cwd[i] = entry_path[i]

\* hashlib.sha256(dir_path.encode()).hexdigest(), tabulated for the paths of
\* the model and cut after the twelfth hex digit (the values are the real
\* digests).
hexdigest(s) ==
    CASE s = "/home/alice" ->
             <<"612b6fc44e30",
               "94a36043870b929ac5fb00daf8513229001e92a639fb827cac26">>
      [] s = "/home/alice2" ->
             <<"4a677335e264",
               "f27822cc7e0ef1380890c382bd33b3b4129a5fc40f1b2092606f">>
      [] s = "/home/alice/sub" ->
             <<"21efa20d2b00",
               "232482b90a5084718bb2e29880e5d2b8feb4c1254b99385b7cc7">>
      [] s = "/tmp" ->
             <<"e9671acd2448",
               "49c57167c658fa2f969752048f7ab184a3dcf5c46cb4d56ae124">>
      [] s = "/srv/box/9866885" ->
             <<"35aae095c9cd",
               "e4f4899d5c2f2bdd7239fd1be647bc177e4a93cfca09b45a528d">>
      [] s = "/srv/box/12238853" ->
             <<"35aae095c9cd",
               "608b4bc5e3a222980c3188a2dd6e6ebcb5c45391a44404a5bb09">>

\* hexdigest()[:12]
sha256_12(s) == hexdigest(s)[1]

\* One fixed container name for every directory.
get_container_name_fixed(dir_path) == "box"

get_container_name(dir_path) == "box-" \o sha256_12(dir_path)

(* --------------------------- configuration ---------------------------- *)

DefaultImage == "ubuntu:latest"

\* An entry of the YAML file: "dir" and an optional "image".
RawEntry(d, hasImage, img) == [dir |-> d, has_image |-> hasImage, image |-> img]

\* The list read_config returns (entry["dir"] resolved, image defaulted).
\* An empty list stands for every case in which read_config or main exits
\* before the matching loop (file missing, not a list, empty).
read_config(raw) ==
    [i \in 1..Len(raw) |->
        [dir |-> raw[i].dir,
         image |-> IF raw[i].has_image THEN raw[i].image ELSE DefaultImage]]

\* The loop has no break: the last matching entry wins.
MatchIndexLast(entries, cwd) ==
    LET hits == {i \in 1..Len(entries) : IsRelativeTo(cwd, entries[i].dir)}
    IN  IF hits = {} THEN 0 ELSE CHOOSE i \in hits : \A j \in hits : j <= i

\* The loop of main over config_entries: index of the first entry whose
\* directory is cwd or an ancestor of cwd, 0 when none is.
MatchIndex(entries, cwd) ==
    LET hits == {i \in 1..Len(entries) : IsRelativeTo(cwd, entries[i].dir)}
    IN  IF hits = {} THEN 0 ELSE CHOOSE i \in hits : \A j \in hits : i <= j

(* ------------------------- container runtime -------------------------- *)

\* A container as docker inspect reports it.
Container(st, mounts, img) == [status |-> st, Mounts |-> mounts, Image |-> img]

Absent == Container("absent", <<>>, "")

Mount(type, src, dst, rw) == [Type |-> type, Source |-> src, Destination |-> dst, RW |-> rw]

\* The mount is made read-only.
VolumeArgReadOnly(dir_path) == <<Mount("bind", dir_path, dir_path, FALSE)>>

\* The -v option of create_container: one read-write bind mount of dir_path
\* on the same path.
VolumeArg(dir_path) == <<Mount("bind", dir_path, dir_path, TRUE)>>

\* What "docker run -d --name N -v d:d:rw image sleep infinity" leaves when
\* it succeeds.
CreatedContainer(dir_path, image) == Container("running", VolumeArg(dir_path), image)

\* The dict comprehension of get_container_info over info["Mounts"]: bind
\* mounts only, keyed by Source; a later entry with the same Source replaces
\* an earlier one.
MountDict(mounts) ==
    LET binds == {i \in 1..Len(mounts) : mounts[i].Type = "bind"}
        srcs == {mounts[i].Source : i \in binds}
        last(s) == CHOOSE i \in binds :
                     /\ mounts[i].Source = s
                     /\ \A j \in binds : mounts[j].Source = s => j <= i
    IN  [s \in srcs |-> mounts[last(s)].Destination]

EmptyDict == [s \in {} |-> s]

\* The value get_container_info returns; "ok" is not part of the Python
\* value, it records whether the except branch was taken.
Info(ok, mounts, image) == [ok |-> ok, mounts |-> mounts, image |-> image]

NoInfo == Info(FALSE, EmptyDict, "?")

get_container_info(c, inspectFails) ==
    IF inspectFails \/ c = Absent
    THEN Info(FALSE, EmptyDict, "")
    ELSE Info(TRUE, MountDict(c.Mounts), c.Image)

\* Every existing container is taken for drifted.
ConfigMatchesNothing(info, dir_path, image) == FALSE

\* Only what the inspection reported is compared: every reported mount must
\* be the expected one, and a reported image must be the declared one.
ConfigMatchesWhatIsKnown(info, dir_path, image) ==
    /\ \A s \in DOMAIN info.mounts : s = dir_path /\ info.mounts[s] = dir_path
    /\ info.image \in {image, ""}

\* The comparison of verify_container_config: TRUE when the container is
\* kept (the function returns True without removing anything).
ConfigMatches(info, dir_path, image) ==
    LET expected_mounts == [s \in {dir_path} |-> dir_path]
    IN  ~(info.mounts # expected_mounts \/ info.image # image)

(* ---------------------------- invocations ----------------------------- *)

\* sys.argv[1:] of an invocation.
Argvs == {<<>>, <<"kill">>, <<"make", "test">>}

Cwds == {AliceSub, Alice2, Tmp}

\* Exit codes of the command run in the container.
ExitCodes == {0, 1, 130}

\* " ".join(command_args)
RECURSIVE Join(_)
Join(args) ==
    IF Len(args) = 0 THEN ""
    ELSE IF Len(args) = 1 THEN args[1]
    ELSE args[1] \o " " \o Join(Tail(args))

\* Every failure is reported as 1.
ExitWithFlag(n) == IF n = 0 THEN 0 ELSE 1

\* sys.exit(n): the status the parent sees is n truncated to 8 bits.
ExitWith(n) == n % 256

\* returncode of "docker exec" when the daemon refuses the call (no such
\* container, container not running).
DockerError == 1

\* sys.exit(1) of every error branch.
ExitFailure == 1

\* sys.exit(130) of the KeyboardInterrupt branch.
ExitInterrupted == 130

NotExited == -1

NoStatus == "?"

\* status is None
None == "None"

NoCwd == <<>>

NoTarget == [dir_path |-> "", image |-> "", container_name |-> "", workdir |-> ""]

NoResult == [kind |-> "none", code |-> NotExited]

\* What docker writes on stderr (result.stderr, e.stderr) when it fails.
NoSuchContainer == "No such container"

NameConflict == "Conflict. The container name is already in use"

NotRunning == "container is not running"

DaemonError == "Error response from daemon"

\* A runtime call as issued: the docker verb, the container it names,
\* whether it returned 0, what it carried and what docker wrote on stderr.
Call(op, name, ok, arg, stderr) ==
    [op |-> op, name |-> name, ok |-> ok, arg |-> arg, stderr |-> stderr]

\* stderr of a call on container c that returned 0 (ok) or did not.
Stderr(c, ok) ==
    IF c = Absent THEN NoSuchContainer
    ELSE IF ok THEN "" ELSE DaemonError

VARIABLES
    config,     \* the entries of ~/.config/box/config.yaml, as written
    docker,     \* container name -> container (Absent when there is none)
    pc,         \* invocation -> position in main
    argv,       \* invocation -> sys.argv[1:]
    cwd,        \* invocation -> Path.cwd().resolve()
    target,     \* invocation -> dir_path, image, container_name, workdir
    status,     \* invocation -> value of get_container_status
    info,       \* invocation -> value of get_container_info
    calls,      \* invocation -> runtime calls issued so far, oldest first
    result,     \* invocation -> how the exec call ended
    exitCode    \* invocation -> exit code of the process

vars == <<config, docker, pc, argv, cwd, target, status, info, calls, result, exitCode>>

Names == {get_container_name(PathStr(d)) : d \in {Alice, Alice2, AliceSub, Tmp, Box1, Box2}}

(* --------------------------- initial states --------------------------- *)

ConfigAlice == <<RawEntry(Alice, FALSE, "")>>

ConfigTwo == <<RawEntry(Alice2, TRUE, "debian:12"), RawEntry(Alice, TRUE, "ubuntu:latest")>>

RawConfigs == {<<>>, ConfigAlice, ConfigTwo}

\* Containers box.py can meet under the name of entry (dir_path, image):
\* none, one it created itself (running, stopped, paused), and ones whose
\* mounts or image no longer are what the entry declares.
InitContainers(dir_path, image) ==
    LET own == VolumeArg(dir_path)
        vol == <<Mount("volume", "cache", "/cache", TRUE)>>
        extra == <<Mount("bind", "/etc", "/etc", TRUE)>>
        moved == <<Mount("bind", dir_path, "/mnt", TRUE)>>
    IN  { Absent,
          Container("running", own, image),
          Container("exited", own, image),
          Container("paused", own, image),
          Container("created", own, image),
          Container("running", own \o vol, image),
          Container("running", own, "alpine:3"),
          Container("exited", own, "alpine:3"),
          Container("running", own \o extra, image),
          Container("exited", <<>>, image),
          Container("running", moved, image),
          Container("running", moved \o own, image) }

InitProcs ==
    /\ pc = [p \in Procs |-> "main"]
    /\ argv = [p \in Procs |-> <<>>]
    /\ cwd = [p \in Procs |-> NoCwd]
    /\ target = [p \in Procs |-> NoTarget]
    /\ status = [p \in Procs |-> NoStatus]
    /\ info = [p \in Procs |-> NoInfo]
    /\ calls = [p \in Procs |-> <<>>]
    /\ result = [p \in Procs |-> NoResult]
    /\ exitCode = [p \in Procs |-> NotExited]

Init ==
    /\ config \in RawConfigs
    /\ \/ /\ config = <<>>
          /\ docker = [n \in Names |-> Absent]
       \/ \E i \in 1..Len(config) :
            LET e == read_config(config)[i]
                name == get_container_name(PathStr(e.dir))
            IN  \E c \in InitContainers(PathStr(e.dir), e.image) :
                    docker = [n \in Names |-> IF n = name THEN c ELSE Absent]
    /\ InitProcs

(* ------------------------------ actions ------------------------------- *)

\* sys.exit(code)
Exit(p, code) ==
    /\ pc' = [pc EXCEPT ![p] = "done"]
    /\ exitCode' = [exitCode EXCEPT ![p] = ExitWith(code)]

Goto(p, where) ==
    /\ pc' = [pc EXCEPT ![p] = where]
    /\ UNCHANGED exitCode

Log(p, call) == calls' = [calls EXCEPT ![p] = Append(@, call)]

\* main up to the first runtime call: usage check, read_config, the
\* matching loop and the choice between the kill subcommand and a command.
BeginFrom(p, cwdSet) ==
    /\ pc[p] = "main"
    /\ \E a \in Argvs, d \in cwdSet :
        LET entries == read_config(config)
            m == MatchIndex(entries, d)
        IN  /\ argv' = [argv EXCEPT ![p] = a]
            /\ cwd' = [cwd EXCEPT ![p] = d]
            /\ IF Len(a) < 1 \/ Len(entries) = 0 \/ m = 0
               THEN /\ Exit(p, ExitFailure)
                    /\ UNCHANGED target
               ELSE /\ target' = [target EXCEPT ![p] =
                          [dir_path |-> PathStr(entries[m].dir),
                           image |-> entries[m].image,
                           container_name |-> get_container_name(PathStr(entries[m].dir)),
                           workdir |-> PathStr(d)]]
                    /\ Goto(p, IF a[1] = "kill" THEN "kill_status" ELSE "status")
    /\ UNCHANGED <<config, docker, status, info, calls, result>>

Begin(p) == BeginFrom(p, Cwds)

\* A stopped container is taken for one that must be handled like any other
\* status the chain does not name.
AfterStatusGuessesOther(st) ==
    CASE st = None -> "create"
      [] st = "running" -> "verify"
      [] OTHER -> "verify"

\* The if/elif chain of main on the value of get_container_status.
AfterStatus(st) ==
    CASE st = None -> "create"
      [] st = "exited" -> "verify"
      [] st = "running" -> "verify"
      [] OTHER -> "fatal"

\* The kill subcommand removes without looking at the status.
AfterKillStatusAlwaysRemoves(st) == "kill_rm"

\* The kill subcommand removes only what a command invocation would use.
AfterKillStatusKnownOnly(st) == IF st \in {"running", "exited"} THEN "kill_rm" ELSE "exit"

\* The kill subcommand on the value of get_container_status: remove the
\* container when there is one, else exit 0.
AfterKillStatus(st) == IF st # None THEN "kill_rm" ELSE "exit"

\* The exited branch starts the container whatever verify_container_config
\* returned.
AfterVerifyStartsExited(st, valid) ==
    IF st = "exited" THEN "start"
    ELSE IF valid THEN "exec" ELSE "rm"

\* Both branches start the container when it is valid.
AfterVerifyStartsRunning(st, valid) ==
    IF ~valid THEN "rm" ELSE "start"

\* The exited branch never keeps the container.
AfterVerifyRecreatesExited(st, valid) ==
    IF ~valid \/ st = "exited" THEN "rm" ELSE "exec"

\* The exited branch forgets to start the container.
AfterVerifyNeverStarts(st, valid) ==
    IF ~valid THEN "rm" ELSE "exec"

\* What main does with the value of verify_container_config: start an
\* exited container, use a running one, create after the removal.
AfterVerify(st, valid) ==
    IF ~valid THEN "rm"
    ELSE IF st = "exited" THEN "start" ELSE "exec"

\* A non-zero result for a container that is there ends the invocation.
GetStatusChecksReason(p) ==
    /\ pc[p] \in {"status", "kill_status"}
    /\ LET name == target[p].container_name
           c == docker[name]
       IN  \E o \in {"rc0", "nonzero", "raise"} :
            /\ o = "rc0" => c # Absent
            /\ Log(p, Call("inspect_status", name, o = "rc0", "",
                           IF o = "raise" THEN "" ELSE Stderr(c, o = "rc0")))
            /\ IF o = "raise" \/ (o = "nonzero" /\ c # Absent)
               THEN /\ Exit(p, ExitFailure)
                    /\ UNCHANGED status
               ELSE LET st == IF o = "rc0" THEN c.status ELSE None
                    IN  /\ status' = [status EXCEPT ![p] = st]
                        /\ IF pc[p] = "kill_status"
                           THEN IF AfterKillStatus(st) = "exit"
                                THEN Exit(p, 0)
                                ELSE Goto(p, AfterKillStatus(st))
                           ELSE IF AfterStatus(st) = "fatal"
                                THEN Exit(p, ExitFailure)
                                ELSE Goto(p, AfterStatus(st))
    /\ UNCHANGED <<config, docker, argv, cwd, target, info, result>>

\* get_container_status and the branch main takes on its value.  The
\* inspect call returns 0 with the status of an existing container, returns
\* non-zero (always so when there is no container), or cannot be run at all.
GetStatus(p) ==
    /\ pc[p] \in {"status", "kill_status"}
    /\ LET name == target[p].container_name
           c == docker[name]
       IN  \E o \in {"rc0", "nonzero", "raise"} :
            /\ o = "rc0" => c # Absent
            /\ Log(p, Call("inspect_status", name, o = "rc0", "",
                           IF o = "raise" THEN "" ELSE Stderr(c, o = "rc0")))
            /\ IF o = "raise"
               THEN /\ Exit(p, ExitFailure)
                    /\ UNCHANGED status
               ELSE LET st == IF o = "rc0" THEN c.status ELSE None
                    IN  /\ status' = [status EXCEPT ![p] = st]
                        /\ IF pc[p] = "kill_status"
                           THEN IF AfterKillStatus(st) = "exit"
                                THEN Exit(p, 0)
                                ELSE Goto(p, AfterKillStatus(st))
                           ELSE IF AfterStatus(st) = "fatal"
                                THEN Exit(p, ExitFailure)
                                ELSE Goto(p, AfterStatus(st))
    /\ UNCHANGED <<config, docker, argv, cwd, target, info, result>>

\* verify_container_config up to its comparison: get_container_info, whose
\* inspect call may fail, and the comparison with the expected mounts and
\* image.
Verify(p) ==
    /\ pc[p] = "verify"
    /\ LET name == target[p].container_name
       IN  \E inspectFails \in BOOLEAN :
            LET i == get_container_info(docker[name], inspectFails)
            IN  /\ info' = [info EXCEPT ![p] = i]
                /\ Log(p, Call("inspect", name, i.ok, "", Stderr(docker[name], i.ok)))
                /\ Goto(p, AfterVerify(status[p],
                                       ConfigMatches(i, target[p].dir_path, target[p].image)))
    /\ UNCHANGED <<config, docker, argv, cwd, target, status, result>>

\* The removal runs with check=False: its failure goes unnoticed.
RemoveUnchecked(p) ==
    /\ pc[p] \in {"rm", "kill_rm"}
    /\ LET name == target[p].container_name
       IN  \E ok \in BOOLEAN :
            /\ Log(p, Call("rm", name, ok, "", Stderr(docker[name], ok)))
            /\ docker' = IF ok THEN [docker EXCEPT ![name] = Absent] ELSE docker
            /\ IF pc[p] = "rm" THEN Goto(p, "create") ELSE Exit(p, 0)
    /\ UNCHANGED <<config, argv, cwd, target, status, info, result>>

\* "docker rm -f": of verify_container_config (then main creates) and of the
\* kill subcommand (then main exits 0).  A failure is sys.exit(1).  Removing
\* a container that is not there succeeds or fails, by docker version.
Remove(p) ==
    /\ pc[p] \in {"rm", "kill_rm"}
    /\ LET name == target[p].container_name
       IN  \E ok \in BOOLEAN :
            /\ Log(p, Call("rm", name, ok, "", Stderr(docker[name], ok)))
            /\ IF ok
               THEN /\ docker' = [docker EXCEPT ![name] = Absent]
                    /\ IF pc[p] = "rm" THEN Goto(p, "create") ELSE Exit(p, 0)
               ELSE /\ UNCHANGED docker
                    /\ Exit(p, ExitFailure)
    /\ UNCHANGED <<config, argv, cwd, target, status, info, result>>

\* The creation runs with check=False: its failure goes unnoticed.
CreateUnchecked(p) ==
    /\ pc[p] = "create"
    /\ LET name == target[p].container_name
           dir_path == target[p].dir_path
           image == target[p].image
       IN  \E ok \in BOOLEAN :
            /\ ok => docker[name] = Absent
            /\ Log(p, Call("run", name, ok,
                           [volumes |-> VolumeArg(dir_path), image |-> image],
                           IF ok THEN "" ELSE IF docker[name] # Absent THEN NameConflict
                                              ELSE DaemonError))
            /\ docker' = IF ok
                         THEN [docker EXCEPT ![name] = CreatedContainer(dir_path, image)]
                         ELSE docker
            /\ Goto(p, "exec")
    /\ UNCHANGED <<config, argv, cwd, target, status, info, result>>

\* A failed creation is tried once more before giving up.
CreateRetriesOnce(p) ==
    /\ pc[p] = "create"
    /\ LET name == target[p].container_name
           dir_path == target[p].dir_path
           image == target[p].image
           tried == \E i \in 1..Len(calls[p]) : calls[p][i].op = "run"
       IN  \E ok \in BOOLEAN :
            /\ ok => docker[name] = Absent
            /\ Log(p, Call("run", name, ok,
                           [volumes |-> VolumeArg(dir_path), image |-> image],
                           IF ok THEN "" ELSE IF docker[name] # Absent THEN NameConflict
                                              ELSE DaemonError))
            /\ IF ok
               THEN /\ docker' = [docker EXCEPT ![name] = CreatedContainer(dir_path, image)]
                    /\ Goto(p, "exec")
               ELSE /\ UNCHANGED docker
                    /\ IF tried THEN Exit(p, ExitFailure) ELSE Goto(p, "create")
    /\ UNCHANGED <<config, argv, cwd, target, status, info, result>>

\* create_container.  "docker run" succeeds only when the name is free; when
\* it fails the container is not there or is left created but not started.
Create(p) ==
    /\ pc[p] = "create"
    /\ LET name == target[p].container_name
           dir_path == target[p].dir_path
           image == target[p].image
       IN  \E o \in {"ok", "fail", "fail_created"} :
            /\ o # "fail" => docker[name] = Absent
            /\ Log(p, Call("run", name, o = "ok",
                           [volumes |-> VolumeArg(dir_path), image |-> image],
                           IF o = "ok" THEN "" ELSE IF docker[name] # Absent THEN NameConflict
                                                    ELSE DaemonError))
            /\ CASE o = "ok" ->
                      /\ docker' = [docker EXCEPT ![name] = CreatedContainer(dir_path, image)]
                      /\ Goto(p, "exec")
                 [] o = "fail" ->
                      /\ UNCHANGED docker
                      /\ Exit(p, ExitFailure)
                 [] o = "fail_created" ->
                      /\ docker' = [docker EXCEPT ![name] =
                                       [CreatedContainer(dir_path, image) EXCEPT !.status = "created"]]
                      /\ Exit(p, ExitFailure)
    /\ UNCHANGED <<config, argv, cwd, target, status, info, result>>

\* The start runs with check=False: its failure goes unnoticed.
StartUnchecked(p) ==
    /\ pc[p] = "start"
    /\ LET name == target[p].container_name
       IN  \E ok \in BOOLEAN :
            /\ ok => docker[name] # Absent
            /\ Log(p, Call("start", name, ok, "", Stderr(docker[name], ok)))
            /\ docker' = IF ok THEN [docker EXCEPT ![name].status = "running"] ELSE docker
            /\ Goto(p, "exec")
    /\ UNCHANGED <<config, argv, cwd, target, status, info, result>>

\* A container that cannot be started is created instead.
StartFallsBackToCreate(p) ==
    /\ pc[p] = "start"
    /\ LET name == target[p].container_name
       IN  \E ok \in BOOLEAN :
            /\ ok => docker[name] # Absent
            /\ Log(p, Call("start", name, ok, "", Stderr(docker[name], ok)))
            /\ IF ok
               THEN /\ docker' = [docker EXCEPT ![name].status = "running"]
                    /\ Goto(p, "exec")
               ELSE /\ UNCHANGED docker
                    /\ Goto(p, "create")
    /\ UNCHANGED <<config, argv, cwd, target, status, info, result>>

\* start_container.
Start(p) ==
    /\ pc[p] = "start"
    /\ LET name == target[p].container_name
       IN  \E ok \in BOOLEAN :
            /\ ok => docker[name] # Absent
            /\ Log(p, Call("start", name, ok, "", Stderr(docker[name], ok)))
            /\ IF ok
               THEN /\ docker' = [docker EXCEPT ![name].status = "running"]
                    /\ Goto(p, "exec")
               ELSE /\ UNCHANGED docker
                    /\ Exit(p, ExitFailure)
    /\ UNCHANGED <<config, argv, cwd, target, status, info, result>>

\* run_command_in_container up to the point where subprocess.run blocks.
\* docker exec returns at once with an error when the container is not
\* running; subprocess.run raising is the "except Exception" branch.
ExecIssue(p) ==
    /\ pc[p] = "exec"
    /\ LET name == target[p].container_name
           arg == [workdir |-> target[p].workdir, command |-> Join(argv[p])]
       IN  IF Len(argv[p]) = 0
           THEN /\ Exit(p, ExitFailure)
                /\ UNCHANGED <<calls, result>>
           ELSE \E raise \in BOOLEAN :
                 IF raise
                 THEN /\ Log(p, Call("exec", name, FALSE, arg, ""))
                      /\ result' = [result EXCEPT ![p] = [kind |-> "raised", code |-> NotExited]]
                      /\ Exit(p, ExitFailure)
                 ELSE IF docker[name].status = "running"
                 THEN /\ Log(p, Call("exec", name, TRUE, arg, ""))
                      /\ Goto(p, "in_exec")
                      /\ UNCHANGED result
                 ELSE /\ Log(p, Call("exec", name, FALSE, arg,
                                      IF docker[name] = Absent THEN NoSuchContainer
                                      ELSE NotRunning))
                      /\ result' = [result EXCEPT ![p] = [kind |-> "returned", code |-> DockerError]]
                      /\ Exit(p, DockerError)
    /\ UNCHANGED <<config, docker, argv, cwd, target, status, info>>

\* subprocess.run returns: sys.exit(result.returncode), the exit code of
\* the command in the container.
ExecReturn(p) ==
    /\ pc[p] = "in_exec"
    /\ \E code \in ExitCodes :
        /\ result' = [result EXCEPT ![p] = [kind |-> "returned", code |-> code]]
        /\ Exit(p, code)
    /\ UNCHANGED <<config, docker, argv, cwd, target, status, info, calls>>

\* KeyboardInterrupt while subprocess.run blocks in the exec call.
ExecInterrupt(p) ==
    /\ pc[p] = "in_exec"
    /\ result' = [result EXCEPT ![p] = [kind |-> "interrupted", code |-> NotExited]]
    /\ Exit(p, ExitInterrupted)
    /\ UNCHANGED <<config, docker, argv, cwd, target, status, info, calls>>

\* Invocations run one after the other: p starts when every earlier one has
\* ended.
Turn(p) == \A q \in Procs : q < p => pc[q] \in {"done", "killed"}

BeginInTurn(p) == Turn(p) /\ Begin(p)

\* The steps of an invocation after main has chosen its container.
Run(p) ==
    \/ GetStatus(p)
    \/ Verify(p)
    \/ Remove(p)
    \/ Create(p)
    \/ Start(p)
    \/ ExecIssue(p)
    \/ ExecReturn(p)
    \/ ExecInterrupt(p)

Next == \E p \in Procs : BeginInTurn(p) \/ Run(p)

Spec == Init /\ [][Next]_vars

(* ------------------------ abrupt termination -------------------------- *)

\* The process is terminated while it blocks in a create, start or remove
\* call (no handler: KeyboardInterrupt is caught around exec only).  The
\* call has taken effect, has not, or - "docker run" being a create
\* followed by a start - has left the container created and not started.
Abort(p) ==
    /\ pc[p] \in {"create", "start", "rm", "kill_rm"}
    /\ LET name == target[p].container_name
           c == docker[name]
           made == CreatedContainer(target[p].dir_path, target[p].image)
           left == CASE pc[p] = "create" ->
                          IF c = Absent
                          THEN {Absent, [made EXCEPT !.status = "created"], made}
                          ELSE {c}
                     [] pc[p] = "start" ->
                          IF c = Absent THEN {c} ELSE {c, [c EXCEPT !.status = "running"]}
                     [] OTHER -> {c, Absent}
           op == CASE pc[p] = "create" -> "run"
                   [] pc[p] = "start" -> "start"
                   [] OTHER -> "rm"
       IN  /\ \E after \in left : docker' = [docker EXCEPT ![name] = after]
           /\ Log(p, Call(op, name, FALSE, "", ""))
    /\ pc' = [pc EXCEPT ![p] = "killed"]
    /\ exitCode' = [exitCode EXCEPT ![p] = ExitInterrupted]
    /\ UNCHANGED <<config, argv, cwd, target, status, info, result>>

\* One directory; the container is absent, running or exited, as declared
\* or drifted.
InitAbort ==
    /\ config = ConfigAlice
    /\ LET e == read_config(config)[1]
           name == get_container_name(PathStr(e.dir))
       IN  \E c \in {x \in InitContainers(PathStr(e.dir), e.image) :
                        x.status \in {"absent", "running", "exited"}} :
               docker = [n \in Names |-> IF n = name THEN c ELSE Absent]
    /\ InitProcs

NextAbort == \E p \in Procs : BeginInTurn(p) \/ Run(p) \/ Abort(p)

SpecAbort == InitAbort /\ [][NextAbort]_vars

(* ----------------- target resolution: nested directories -------------- *)

ConfigNested == <<RawEntry(Alice, FALSE, ""), RawEntry(AliceSub, TRUE, "debian:12")>>

ConfigNestedReversed == <<RawEntry(AliceSub, TRUE, "debian:12"), RawEntry(Alice, FALSE, "")>>

ResolveConfigs == {ConfigAlice, ConfigTwo, ConfigNested, ConfigNestedReversed}

ResolveCwds == {Alice, AliceSub, Alice2, Tmp}

\* Configurations with nested directories; the container of the first entry
\* is absent or stopped.
InitResolve ==
    /\ config \in ResolveConfigs
    /\ LET e == read_config(config)[1]
           name == get_container_name(PathStr(e.dir))
       IN  \E c \in {Absent, Container("exited", VolumeArg(PathStr(e.dir)), e.image)} :
               docker = [n \in Names |-> IF n = name THEN c ELSE Absent]
    /\ InitProcs

BeginResolveInTurn(p) == Turn(p) /\ BeginFrom(p, ResolveCwds)

NextResolve == \E p \in Procs : BeginResolveInTurn(p) \/ Run(p)

SpecResolve == InitResolve /\ [][NextResolve]_vars

(* ----------------------- concurrent invocations ----------------------- *)

\* One directory; its container is absent, or running or exited as declared,
\* or running another image.
InitConc ==
    /\ config = ConfigAlice
    /\ LET e == read_config(config)[1]
           name == get_container_name(PathStr(e.dir))
       IN  \E c \in {Absent,
                      Container("running", VolumeArg(PathStr(e.dir)), e.image),
                      Container("exited", VolumeArg(PathStr(e.dir)), e.image),
                      Container("running", VolumeArg(PathStr(e.dir)), "alpine:3")} :
               docker = [n \in Names |-> IF n = name THEN c ELSE Absent]
    /\ InitProcs

\* Invocations are launched from the same directory at any time; their
\* runtime calls interleave.
BeginConc(p) == BeginFrom(p, {AliceSub})

NextConc == \E p \in Procs : BeginConc(p) \/ Run(p)

SpecConc == InitConc /\ [][NextConc]_vars

(* ------------- lifecycle: the declared image may be edited ------------ *)

ConfigAliceDebian == <<RawEntry(Alice, TRUE, "debian:12")>>

LifecycleConfigs == {ConfigAlice, ConfigAliceDebian}

\* One directory; no container yet, or one left by earlier use.
InitLifecycle ==
    /\ config = ConfigAlice
    /\ LET e == read_config(config)[1]
           name == get_container_name(PathStr(e.dir))
       IN  \E c \in {Absent,
                      Container("running", VolumeArg(PathStr(e.dir)), e.image),
                      Container("exited", VolumeArg(PathStr(e.dir)), e.image),
                      Container("exited", VolumeArg(PathStr(e.dir)), "alpine:3")} :
               docker = [n \in Names |-> IF n = name THEN c ELSE Absent]
    /\ InitProcs

\* The user edits the image of the entry between two invocations;
\* read_config reads the file anew in every invocation.
EditConfig ==
    /\ \A p \in Procs : pc[p] \in {"main", "done"}
    /\ \E raw \in LifecycleConfigs \ {config} : config' = raw
    /\ UNCHANGED <<docker, pc, argv, cwd, target, status, info, calls, result, exitCode>>

BeginLifecycleInTurn(p) == Turn(p) /\ BeginFrom(p, {AliceSub})

NextLifecycle == EditConfig \/ \E p \in Procs : BeginLifecycleInTurn(p) \/ Run(p)

SpecLifecycle == InitLifecycle /\ [][NextLifecycle]_vars

\* Every runtime call of a started invocation returns: subprocess.run
\* blocks until docker answers, and the command in the container ends or
\* is interrupted.
Returning == \A p \in Procs : WF_vars(Run(p))

\* The invocations alone, the declared image left as it is.
NextLive == \E p \in Procs : BeginLifecycleInTurn(p) \/ Run(p)

SpecLive == InitLifecycle /\ [][NextLive]_vars /\ Returning

(* ------------- identity: directories whose digests collide ------------ *)

ConfigColliding == <<RawEntry(Box1, FALSE, ""), RawEntry(Box2, TRUE, "debian:12")>>

IdentityConfigs == {ConfigAlice, ConfigAliceDebian, ConfigTwo, ConfigColliding}

IdentityCwds == {AliceSub, Alice2, Box1, Box2}

\* The same directory under two images, two directories with different
\* names, two directories with the same name; the container of the first
\* entry is absent, running or stopped.
InitIdentity ==
    /\ config \in IdentityConfigs
    /\ LET e == read_config(config)[1]
           name == get_container_name(PathStr(e.dir))
       IN  \E c \in {Absent,
                      Container("running", VolumeArg(PathStr(e.dir)), e.image),
                      Container("exited", VolumeArg(PathStr(e.dir)), e.image)} :
               docker = [n \in Names |-> IF n = name THEN c ELSE Absent]
    /\ InitProcs

BeginIdentityInTurn(p) == Turn(p) /\ BeginFrom(p, IdentityCwds)

NextIdentity == \E p \in Procs : BeginIdentityInTurn(p) \/ Run(p)

SpecIdentity == InitIdentity /\ [][NextIdentity]_vars

(* ------------------------- reading the state -------------------------- *)

\* p got past the matching loop as a command invocation / as "kill".
IsCommand(p) == target[p] # NoTarget /\ argv[p][1] # "kill"

IsKill(p) == target[p] # NoTarget /\ argv[p][1] = "kill"

OpsOf(cs) == [i \in 1..Len(cs) |-> cs[i].op]

IsMutation(c) == c.op \in {"rm", "run", "start"}

\* The verbs of the mutation calls p has issued, oldest first.
MutationOps(p) == OpsOf(SelectSeq(calls[p], IsMutation))

Issued(p, op) == \E i \in 1..Len(calls[p]) : calls[p][i].op = op

Failed(p, op) == \E i \in 1..Len(calls[p]) : calls[p][i].op = op /\ ~calls[p][i].ok

Succeeded(p, op) == \E i \in 1..Len(calls[p]) : calls[p][i].op = op /\ calls[p][i].ok

\* p has the value of get_container_info, and it is not what the entry
\* declares: the mount map is not {dir: dir} or the image is another.
ObservedDrift(p) ==
    /\ status[p] \in {"running", "exited"}
    /\ Issued(p, "inspect")
    /\ \/ info[p].mounts # [s \in {target[p].dir_path} |-> target[p].dir_path]
       \/ info[p].image # target[p].image

ObservedEqual(p) ==
    /\ status[p] \in {"running", "exited"}
    /\ Issued(p, "inspect")
    /\ DOMAIN info[p].mounts = {target[p].dir_path}
    /\ info[p].mounts[target[p].dir_path] = target[p].dir_path
    /\ info[p].image = target[p].image

(* ------------------------------- claims ------------------------------- *)

\* C1, as stated: a command invocation that observes a running or exited
\* container with drifted mounts or image has issued, when it exits, exactly
\* the mutation calls remove, create.
C1_RemoveThenCreateAlways ==
    \A p \in Procs :
        (pc[p] = "done" /\ IsCommand(p) /\ ObservedDrift(p))
            => MutationOps(p) = <<"rm", "run">>

\* C1, amended: such an invocation issues the forced remove first and, when
\* the remove succeeded, exactly one create after it; when the remove
\* failed the remove is its only mutation call.  It never starts the
\* container, and it execs only after a remove and a create that succeeded.
C1_DriftRecreates ==
    \A p \in Procs :
        (IsCommand(p) /\ ObservedDrift(p)) =>
            /\ pc[p] = "rm" => MutationOps(p) = <<>>
            /\ pc[p] = "create" => MutationOps(p) = <<"rm">> /\ Succeeded(p, "rm")
            /\ pc[p] \in {"exec", "in_exec"} =>
                   MutationOps(p) = <<"rm", "run">> /\ Succeeded(p, "rm") /\ Succeeded(p, "run")
            /\ pc[p] = "done" =>
                   MutationOps(p) = IF Succeeded(p, "rm") THEN <<"rm", "run">> ELSE <<"rm">>
            /\ pc[p] \in {"rm", "create", "exec", "in_exec", "done"}
            /\ Issued(p, "exec") => Succeeded(p, "rm") /\ Succeeded(p, "run")

\* C1 witness: an invocation saw a running container of another image,
\* removed it, created it anew and ran its command.
C1_Witness ==
    \E p \in Procs :
        /\ pc[p] = "done" /\ IsCommand(p) /\ ObservedDrift(p)
        /\ status[p] = "running" /\ info[p].ok /\ info[p].image # target[p].image
        /\ MutationOps(p) = <<"rm", "run">>
        /\ result[p].kind = "returned"

\* C2: an invocation that observes the container running with mounts
\* {dir: dir} and the declared image issues no mutation call and goes on to
\* exec, the container is left as it was observed, and the next command
\* invocation for the same container, when its two inspections are
\* answered, observes the same and issues no mutation call either.
C2_ReuseIdempotent ==
    \A p \in Procs :
        (IsCommand(p) /\ status[p] = "running" /\ ObservedEqual(p)) =>
            /\ MutationOps(p) = <<>>
            /\ pc[p] \in {"exec", "in_exec", "done"}
            /\ (\A q \in Procs : q > p => pc[q] = "main") =>
                 LET c == docker[target[p].container_name]
                 IN  /\ c.status = "running"
                     /\ MountDict(c.Mounts) = info[p].mounts
                     /\ c.Image = info[p].image
            /\ \A q \in Procs :
                 ( /\ q = p + 1
                   /\ IsCommand(q)
                   /\ target[q].container_name = target[p].container_name
                   /\ Succeeded(q, "inspect_status")
                   /\ Succeeded(q, "inspect") ) =>
                     /\ status[q] = "running" /\ ObservedEqual(q)
                     /\ MutationOps(q) = <<>>
                     /\ pc[q] \in {"exec", "in_exec", "done"}

\* C2 witness: two invocations in a row both observed the running container
\* as declared and both have run their command.
C2_Witness ==
    \E p \in Procs : \E q \in Procs :
        /\ q = p + 1
        /\ IsCommand(p) /\ status[p] = "running" /\ ObservedEqual(p)
        /\ IsCommand(q) /\ status[q] = "running" /\ ObservedEqual(q)
        /\ target[q].container_name = target[p].container_name
        /\ pc[p] = "done" /\ pc[q] = "done"
        /\ result[p].kind = "returned" /\ result[q].kind = "returned"

\* C3: a command invocation that observes no container issues, besides the
\* status query and the exec, exactly one call: a create carrying the one
\* read-write bind mount of dir_path on dir_path and the declared image; no
\* remove, no start, no configuration inspection.
C3_AbsentCreates ==
    \A p \in Procs :
        (IsCommand(p) /\ status[p] = None) =>
            LET cs == SelectSeq(calls[p], LAMBDA c : c.op # "exec")
            IN  IF pc[p] = "create"
                THEN OpsOf(cs) = <<"inspect_status">>
                ELSE /\ pc[p] \in {"exec", "in_exec", "done"}
                     /\ OpsOf(cs) = <<"inspect_status", "run">>
                     /\ cs[2].name = target[p].container_name
                     /\ cs[2].arg.image = target[p].image
                     /\ cs[2].arg.volumes =
                          << [Type |-> "bind", Source |-> target[p].dir_path,
                              Destination |-> target[p].dir_path, RW |-> TRUE] >>

\* C3 witness: an invocation found no container, created it and ran its
\* command in it.
C3_Witness ==
    \E p \in Procs :
        /\ IsCommand(p) /\ status[p] = None /\ pc[p] = "done"
        /\ OpsOf(calls[p]) = <<"inspect_status", "run", "exec">>
        /\ docker[target[p].container_name].status = "running"

\* C4: a command invocation that observes the container exited with the
\* declared mounts and image issues exactly one start and no remove or
\* create.
C4_ExitedStarts ==
    \A p \in Procs :
        (IsCommand(p) /\ status[p] = "exited" /\ ObservedEqual(p)) =>
            IF pc[p] = "start"
            THEN MutationOps(p) = <<>>
            ELSE /\ pc[p] \in {"exec", "in_exec", "done"}
                 /\ MutationOps(p) = <<"start">>

\* C4 witness: an exited container was started and the command ran in it.
C4_Witness ==
    \E p \in Procs :
        /\ IsCommand(p) /\ status[p] = "exited" /\ ObservedEqual(p)
        /\ pc[p] = "done" /\ MutationOps(p) = <<"start">>
        /\ Succeeded(p, "exec")

\* C5: after a status other than absent, running or exited the invocation
\* has exited non-zero and the status query is its only runtime call.
C5_UnknownStatusFatal ==
    \A p \in Procs :
        (IsCommand(p) /\ status[p] \notin {NoStatus, None, "running", "exited"}) =>
            /\ pc[p] = "done"
            /\ exitCode[p] # 0
            /\ OpsOf(calls[p]) = <<"inspect_status">>

\* C5 witness: an invocation met a paused container.
C5_Witness ==
    \E p \in Procs : IsCommand(p) /\ status[p] = "paused" /\ pc[p] = "done"

\* C6, as stated: when the configuration inspection failed the invocation
\* has, when it exits, removed the container and issued the create.
C6_UnreadableAlwaysRecreated ==
    \A p \in Procs :
        (pc[p] = "done" /\ IsCommand(p) /\ Failed(p, "inspect"))
            => Succeeded(p, "rm") /\ Issued(p, "run")

\* C6, amended: when the configuration inspection failed, the observed
\* configuration is the empty one and counts as drift for every declared
\* directory and image: the invocation issues the forced remove and, when
\* that remove succeeds, one create; it never starts the container and it
\* never execs in the container it could not read.
C6_UnreadableIsDrift ==
    \A p \in Procs :
        (IsCommand(p) /\ Failed(p, "inspect")) =>
            /\ info[p].mounts = EmptyDict /\ info[p].image = ""
            /\ pc[p] \in {"rm", "create", "exec", "in_exec", "done"}
            /\ pc[p] # "rm" => Issued(p, "rm")
            /\ ~Issued(p, "start")
            /\ Issued(p, "run") <=> (Succeeded(p, "rm") /\ pc[p] # "create")
            /\ Issued(p, "exec") => Succeeded(p, "rm") /\ Succeeded(p, "run")
            /\ Len(MutationOps(p)) <= 2

\* C6 witness: the inspection of an exited container that is as declared
\* failed; the container was removed and created anew.
C6_Witness ==
    \E p \in Procs :
        /\ IsCommand(p) /\ Failed(p, "inspect") /\ status[p] = "exited"
        /\ pc[p] = "done" /\ MutationOps(p) = <<"rm", "run">>
        /\ Succeeded(p, "exec")

\* C7: when the remove of a recreate failed, the invocation has exited
\* non-zero and the remove is its last runtime call: no create, no start, no
\* exec.
C7_FailedRemoveStops ==
    \A p \in Procs :
        (IsCommand(p) /\ Failed(p, "rm")) =>
            /\ pc[p] = "done"
            /\ exitCode[p] # 0
            /\ calls[p][Len(calls[p])].op = "rm"
            /\ ~Issued(p, "run") /\ ~Issued(p, "start") /\ ~Issued(p, "exec")

\* C7 witness: the remove of a drifted container failed.
C7_Witness ==
    \E p \in Procs :
        /\ IsCommand(p) /\ ObservedDrift(p) /\ Failed(p, "rm")
        /\ docker[target[p].container_name] # Absent

\* C8: in every invocation, once a create, start or remove call has failed
\* the process has exited non-zero without issuing exec; when the exec call
\* ran the command and returned, the exit code is the command's, zero or
\* not.
C8_NoPartialSuccess ==
    \A p \in Procs :
        /\ (Failed(p, "run") \/ Failed(p, "start") \/ Failed(p, "rm")) =>
              /\ pc[p] = "done"
              /\ exitCode[p] # 0
              /\ ~Issued(p, "exec")
        /\ (Succeeded(p, "exec") /\ pc[p] = "done" /\ result[p].kind = "returned") =>
              /\ exitCode[p] = result[p].code
              /\ result[p].code \in ExitCodes

\* C8 witness: one invocation's create failed; another's command failed
\* with code 1.
C8_Witness ==
    /\ \E p \in Procs : Failed(p, "run") /\ pc[p] = "done"
    /\ \E p \in Procs : Succeeded(p, "exec") /\ result[p] = [kind |-> "returned", code |-> 1]
                          /\ exitCode[p] = 1

\* C9: when the exec call returned, the process exit code is the return
\* code of the exec call, which is the exit code of the command when the
\* command ran; when the process was interrupted in the exec call its exit
\* code is 130.
C9_ExitCodePassthrough ==
    \A p \in Procs :
        /\ result[p].kind = "returned" => pc[p] = "done" /\ exitCode[p] = result[p].code
        /\ result[p].kind = "interrupted" => pc[p] = "done" /\ exitCode[p] = 130

\* C9 witness: a command exited with 130, another invocation was
\* interrupted.
C9_Witness ==
    /\ \E p \in Procs : Succeeded(p, "exec") /\ result[p] = [kind |-> "returned", code |-> 130]
    /\ \E p \in Procs : Succeeded(p, "exec") /\ result[p].kind = "interrupted"

\* C10: a kill invocation never issues create, start or exec; when it
\* observes no container it issues no mutation call and exits 0; when it
\* observes a container it issues exactly one forced remove.
C10_KillIsDecisive ==
    \A p \in Procs :
        IsKill(p) =>
            /\ ~Issued(p, "run") /\ ~Issued(p, "start") /\ ~Issued(p, "exec")
            /\ status[p] = None =>
                   /\ pc[p] = "done" /\ exitCode[p] = 0
                   /\ MutationOps(p) = <<>>
            /\ status[p] \notin {None, NoStatus} =>
                   /\ pc[p] = "kill_rm" => MutationOps(p) = <<>>
                   /\ pc[p] # "kill_rm" => pc[p] = "done" /\ MutationOps(p) = <<"rm">>

\* C10 witness: a kill removed a paused container, and the next kill found
\* none.
C10_Witness ==
    \E p \in Procs : \E q \in Procs :
        /\ IsKill(p) /\ status[p] = "paused" /\ Succeeded(p, "rm") /\ exitCode[p] = 0
        /\ IsKill(q) /\ status[q] = None /\ exitCode[q] = 0
        /\ ~calls[q][1].ok /\ target[q] = target[p]

\* entry is cwd or an ancestor of cwd, segment by segment.
IsAncestorOrSelf(entry, d) == Len(entry) <= Len(d) /\ SubSeq(d, 1, Len(entry)) = entry

\* C11: an invocation with arguments and a configuration selects the first
\* configured entry, in configuration order, whose directory is the current
\* directory or an ancestor of it by whole segments, and passes the current
\* directory as the working directory of exec; when no entry is, it exits
\* non-zero without any runtime call.
C11_TargetResolution ==
    \A p \in Procs :
        (pc[p] # "main" /\ Len(argv[p]) >= 1 /\ Len(config) >= 1) =>
            LET hits == {i \in 1..Len(config) : IsAncestorOrSelf(config[i].dir, cwd[p])}
            IN  IF hits = {}
                THEN /\ target[p] = NoTarget
                     /\ pc[p] = "done" /\ exitCode[p] # 0
                     /\ calls[p] = <<>>
                ELSE \E i \in hits :
                     /\ \A j \in hits : i <= j
                     /\ target[p].dir_path = PathStr(config[i].dir)
                     /\ target[p].container_name = get_container_name(PathStr(config[i].dir))
                     /\ target[p].workdir = PathStr(cwd[p])
                     /\ \A k \in 1..Len(calls[p]) :
                          /\ calls[p][k].name = target[p].container_name
                          /\ calls[p][k].op = "exec" =>
                                calls[p][k].arg.workdir = PathStr(cwd[p])

\* C11 witness: with /home/alice configured before /home/alice/sub, a
\* command run in /home/alice/sub went to the container of /home/alice with
\* /home/alice/sub as working directory, and an invocation in /home/alice2
\* matched nothing.
C11_Witness ==
    /\ config = ConfigNested
    /\ \E p \in Procs :
        /\ cwd[p] = AliceSub /\ target[p].dir_path = "/home/alice"
        /\ Succeeded(p, "exec")
        /\ calls[p][Len(calls[p])].arg.workdir = "/home/alice/sub"
    /\ \E p \in Procs :
        /\ cwd[p] = Alice2 /\ Len(argv[p]) >= 1
        /\ pc[p] = "done" /\ target[p] = NoTarget /\ exitCode[p] = 1

\* q is the command invocation that follows the abruptly terminated p for
\* the same container, and q has run to its end uninterrupted with every
\* inspection and every create, start and remove call succeeding.
FollowsKilled(p, q) ==
    /\ q = p + 1
    /\ pc[p] = "killed"
    /\ IsCommand(q) /\ target[q].container_name = target[p].container_name
    /\ pc[q] = "done"
    /\ result[q].kind \notin {"raised", "interrupted"}
    /\ \A k \in 1..Len(calls[q]) : calls[q][k].op # "exec" => calls[q][k].ok

\* The container of q runs with the declared image and with dir_path bound
\* read-write on dir_path.
RunsAsDeclared(q) ==
    LET c == docker[target[q].container_name]
    IN  /\ c.status = "running"
        /\ c.Image = target[q].image
        /\ \E i \in 1..Len(c.Mounts) :
             c.Mounts[i] = [Type |-> "bind", Source |-> target[q].dir_path,
                            Destination |-> target[q].dir_path, RW |-> TRUE]

Count(p, op) == Len(SelectSeq(calls[p], LAMBDA c : c.op = op))

\* Some invocation has removed the container of that name.
RemovedByAny(name) ==
    \E r \in Procs : \E i \in 1..Len(calls[r]) :
        calls[r][i].op = "rm" /\ calls[r][i].name = name /\ calls[r][i].ok

\* C13: two concurrent invocations for the same directory that both
\* observed the container as absent and both issued a create call do not
\* both succeed (while nobody removes the container, the runtime admits one
\* container per name); an invocation whose create failed has issued that
\* one create as its last call, has issued no exec and has exited non-zero.
C13_CreateRaceOneFails ==
    /\ \A p \in Procs :
         Failed(p, "run") =>
             /\ pc[p] = "done"
             /\ exitCode[p] # 0
             /\ Count(p, "run") = 1
             /\ calls[p][Len(calls[p])].op = "run"
             /\ ~Issued(p, "exec")
    /\ \A p, q \in Procs :
         (/\ p # q
          /\ IsCommand(p) /\ IsCommand(q)
          /\ target[p].container_name = target[q].container_name
          /\ status[p] = None /\ status[q] = None
          /\ Issued(p, "run") /\ Issued(q, "run")
          /\ ~RemovedByAny(target[p].container_name))
         => ~(Succeeded(p, "run") /\ Succeeded(q, "run"))

\* Both invocations saw no container, both called create; one made the
\* container and the other ran into the name conflict and exited 1.
C13_Witness ==
    \E p, q \in Procs :
        /\ p # q
        /\ status[p] = None /\ status[q] = None
        /\ calls[p][1].stderr = NoSuchContainer
        /\ calls[q][1].stderr = NoSuchContainer
        /\ Len(calls[q]) = 2
        /\ Succeeded(p, "run")
        /\ calls[q][2].op = "run" /\ ~calls[q][2].ok
        /\ calls[q][2].stderr = NameConflict
        /\ pc[q] = "done" /\ exitCode[q] = ExitFailure

(* ------------------------------- C14 ---------------------------------- *)

\* p saw a container in its status observation.
ObservedExisting(p) == status[p] \notin {None, NoStatus}

\* The i-th call of p is a start, remove or exec that found the container
\* gone although p had seen one.
FoundDeleted(p, i) ==
    /\ ObservedExisting(p)
    /\ calls[p][i].op \in {"start", "rm", "exec"}
    /\ calls[p][i].stderr = NoSuchContainer

\* C14 as stated: a start, remove or exec call that targets a container
\* removed by a concurrent invocation since the status observation fails,
\* and that invocation ends with a non-zero exit code; an invocation that
\* exits 0 for a command has run it.
C14_RemovalRaceAlwaysFails ==
    /\ \A p \in Procs : \A i \in 1..Len(calls[p]) :
         FoundDeleted(p, i) =>
             /\ ~calls[p][i].ok
             /\ pc[p] = "done" => exitCode[p] # 0
    /\ \A p \in Procs :
         (IsCommand(p) /\ pc[p] = "done" /\ exitCode[p] = 0) =>
             (Succeeded(p, "exec") /\ result[p] = [kind |-> "returned", code |-> 0])

\* C14, amended: a start or exec call that targets a container removed
\* since the status observation fails and the invocation exits non-zero; a
\* forced remove of the removed container either fails (exit 1) or
\* succeeds, and then the invocation goes on as after a removal (kill exits
\* 0, a drift recreation creates); an invocation that exits 0 for a command
\* has run it.
C14_RemovalRace ==
    /\ \A p \in Procs : \A i \in 1..Len(calls[p]) :
         FoundDeleted(p, i) =>
             IF calls[p][i].op \in {"start", "exec"} \/ ~calls[p][i].ok
             THEN /\ ~calls[p][i].ok
                  /\ i = Len(calls[p])
                  /\ pc[p] = "done" /\ exitCode[p] # 0
             ELSE IF IsKill(p)
                  THEN i = Len(calls[p]) /\ pc[p] = "done" /\ exitCode[p] = 0
                  ELSE IF i = Len(calls[p]) THEN pc[p] = "create"
                       ELSE calls[p][i + 1].op = "run"
    /\ \A p \in Procs :
         (IsCommand(p) /\ pc[p] = "done" /\ exitCode[p] = 0) =>
             (Succeeded(p, "exec") /\ result[p] = [kind |-> "returned", code |-> 0])

\* p saw a running container as declared; q removed it; p's exec found no
\* container and p exited with docker's error code.
C14_Witness ==
    \E p, q \in Procs :
        /\ p # q
        /\ Succeeded(q, "rm")
        /\ status[p] = "running"
        /\ Len(calls[p]) = 3
        /\ FoundDeleted(p, 3)
        /\ calls[p][3].op = "exec" /\ ~calls[p][3].ok
        /\ pc[p] = "done" /\ exitCode[p] = DockerError

(* ------------------------------- C15 ---------------------------------- *)

\* The runtime answered p's inspections truthfully: each returned 0 or
\* reported that there is no container.
ReportsFaithfully(p) ==
    \A i \in 1..Len(calls[p]) :
        calls[p][i].op \in {"inspect_status", "inspect"} =>
            (calls[p][i].ok \/ calls[p][i].stderr = NoSuchContainer)

\* Invocations p < q for the same container with no kill between them, the
\* same declared image in all of p..q and truthful inspections in all of
\* them.
SameEpoch(p, q) ==
    /\ p < q
    /\ IsCommand(p) /\ IsCommand(q)
    /\ \A r \in p..q :
         /\ target[r] # NoTarget => target[r] = target[p]
         /\ ~IsKill(r)
         /\ ReportsFaithfully(r)

\* A remove is issued only by kill or on observed drift; a create only when
\* the container was observed absent or was just removed for drift.
RemoveAndCreateOnlyWhenDue ==
    \A p \in Procs :
        /\ Issued(p, "rm") => (IsKill(p) \/ ObservedDrift(p))
        /\ \A i \in 1..Len(calls[p]) :
             calls[p][i].op = "run" =>
                 \/ status[p] = None /\ i = 2
                 \/ /\ ObservedDrift(p)
                    /\ calls[p][i - 1].op = "rm" /\ calls[p][i - 1].ok

\* C15 as stated: over sequential invocations for one directory a remove is
\* issued only by kill or on observed drift, a create only on observed
\* absence or right after the removal for drift, and with an unchanged
\* declared configuration and truthful inspections create is issued at
\* most once between two kills.
C15_CreateIssuedOncePerEpoch ==
    /\ RemoveAndCreateOnlyWhenDue
    /\ \A p, q \in Procs :
         SameEpoch(p, q) => ~(Issued(p, "run") /\ Issued(q, "run"))

\* C15, amended: as stated, except that between two kills create succeeds
\* at most once: a further create is issued only after the earlier one
\* failed.
C15_CreateSucceedsOncePerEpoch ==
    /\ RemoveAndCreateOnlyWhenDue
    /\ \A p, q \in Procs :
         (SameEpoch(p, q) /\ Issued(p, "run") /\ Issued(q, "run")) => Failed(p, "run")

\* The first invocation created the container; the second one, under the
\* same declared image, found it running as declared and used it.
C15_Witness ==
    \E p, q \in Procs :
        /\ SameEpoch(p, q)
        /\ status[p] = None /\ Succeeded(p, "run")
        /\ status[q] = "running" /\ ObservedEqual(q)
        /\ OpsOf(calls[q]) = <<"inspect_status", "inspect", "exec">>
        /\ pc[q] = "done"

(* ------------------------------- C16 ---------------------------------- *)

\* The place of a docker verb in the inspect-decide-provision-exec sequence.
Rank(op) ==
    CASE op = "inspect_status" -> 1
      [] op = "inspect" -> 2
      [] op = "rm" -> 3
      [] op \in {"run", "start"} -> 4
      [] op = "exec" -> 5

\* The calls of p so far go strictly up the sequence, beginning with the
\* status observation: no verb twice, never both create and start, nothing
\* after exec.
OneSequence(p) ==
    /\ Len(calls[p]) > 0 => calls[p][1].op = "inspect_status"
    /\ \A i, j \in 1..Len(calls[p]) :
         i < j => Rank(calls[p][i].op) < Rank(calls[p][j].op)

\* C16: each invocation issues its runtime calls as at most one sequence
\* status observation, at most one remove, at most one of create or start,
\* at most one exec as the last call, none repeated; and every invocation
\* that got to its first runtime call terminates once its calls return.
C16_OneSequenceThenExit ==
    /\ [](\A p \in Procs : OneSequence(p))
    /\ \A p \in Procs : (pc[p] \notin {"main", "done"}) ~> (pc[p] = "done")

\* The longest sequence: status, configuration, remove, create, exec, and
\* the invocation has ended.
C16_Witness ==
    \E p \in Procs :
        /\ OpsOf(calls[p]) = <<"inspect_status", "inspect", "rm", "run", "exec">>
        /\ pc[p] = "done"

(* ------------------------------- C17 ---------------------------------- *)

\* The name p works on is "box-" and the first twelve hex digits of the
\* digest of its directory path, in the target and in every call, whatever
\* the image, the current directory and the container are.
NameFromPathAlone(p) ==
    target[p] # NoTarget =>
        /\ target[p].container_name = "box-" \o hexdigest(target[p].dir_path)[1]
        /\ \A i \in 1..Len(calls[p]) : calls[p][i].name = target[p].container_name

NonZeroStatusResult(p) ==
    /\ Len(calls[p]) > 0
    /\ calls[p][1].op = "inspect_status"
    /\ ~calls[p][1].ok
    /\ calls[p][1].stderr # ""

\* C18: whatever made the status inspection return non-zero, the status is
\* absent: a command invocation goes on to create as its next call, kill
\* issues nothing more and exits 0.
C18_NonZeroIsAbsent ==
    \A p \in Procs :
        NonZeroStatusResult(p) =>
            /\ status[p] = None
            /\ IsCommand(p) =>
                  IF Len(calls[p]) = 1 THEN pc[p] = "create"
                  ELSE calls[p][2].op = "run"
            /\ IsKill(p) =>
                  Len(calls[p]) = 1 /\ pc[p] = "done" /\ exitCode[p] = 0

\* The container is there, yet the inspection returned non-zero for
\* another reason: one invocation went on to create, a kill exited 0.
C18_Witness ==
    \E p, q \in Procs :
        /\ NonZeroStatusResult(p) /\ NonZeroStatusResult(q)
        /\ calls[p][1].stderr = DaemonError
        /\ calls[q][1].stderr = DaemonError
        /\ IsCommand(p) /\ Issued(p, "run")
        /\ IsKill(q) /\ pc[q] = "done" /\ exitCode[q] = 0

(* ------------------------------- C19 ---------------------------------- *)

\* The bind mounts of container c, each as <<Source, Destination>>.
BindMounts(c) ==
    {<<c.Mounts[i].Source, c.Mounts[i].Destination>> :
        i \in {k \in 1..Len(c.Mounts) : c.Mounts[k].Type = "bind"}}

\* C19: in sequential invocations the exec call is issued only in a state
\* where the container exists, is running, has exactly the declared bind
\* mount (dir_path on dir_path) and exactly the declared image, on every
\* path that reaches exec.
C19_ExecOnlyAsDeclared ==
    \A p \in Procs :
        pc[p] = "exec" =>
            LET c == docker[target[p].container_name]
            IN  /\ c # Absent
                /\ c.status = "running"
                /\ BindMounts(c) = {<<target[p].dir_path, target[p].dir_path>>}
                /\ c.Image = target[p].image

(* ------------------------------- C20 ---------------------------------- *)

\* q is the first command invocation for p's container after p.
NextNormal(p, q) ==
    /\ p < q
    /\ IsCommand(q)
    /\ target[q].container_name = target[p].container_name
    /\ \A r \in Procs :
         (p < r /\ r < q) =>
             ~(IsCommand(r) /\ target[r].container_name = target[p].container_name)

\* C20: kill issues the forced remove for a container it saw, whatever its
\* status, as the call right after the status observation and without
\* inspecting the configuration; after a successful kill the next command
\* invocation that gets an answer to its status inspection sees no
\* container and creates it.
C20_KillAnyStatus ==
    /\ \A p \in Procs :
         (IsKill(p) /\ ObservedExisting(p)) =>
             /\ ~Issued(p, "inspect")
             /\ IF Len(calls[p]) = 1 THEN pc[p] = "kill_rm"
                ELSE Len(calls[p]) = 2 /\ calls[p][2].op = "rm"
    /\ \A p, q \in Procs :
         (/\ IsKill(p) /\ Succeeded(p, "rm")
          /\ NextNormal(p, q)
          /\ status[q] # NoStatus) =>
             /\ status[q] = None
             /\ IF Len(calls[q]) = 1 THEN pc[q] = "create"
                ELSE calls[q][2].op = "run"

\* kill removed a paused container, which a command invocation stops at;
\* the next command invocation saw no container and created it.
C20_Witness ==
    \E p, q \in Procs :
        /\ IsKill(p) /\ status[p] = "paused"
        /\ OpsOf(calls[p]) = <<"inspect_status", "rm">>
        /\ Succeeded(p, "rm") /\ exitCode[p] = 0
        /\ NextNormal(p, q)
        /\ status[q] = None
        /\ calls[q][1].stderr = NoSuchContainer
        /\ Succeeded(q, "run")

====
